---- MODULE Spec2Model ----
(***************************************************************************)
(* A model of svg_fmt/src/svg.rs: the SVG value records, their chained     *)
(* builder methods and their fmt::Display renderings.                      *)
(*                                                                         *)
(* f32 values are modelled by the integer-valued floats; their Display     *)
(* text is then the decimal integer ("20" for 20.0, "-5" for -5.0).        *)
(* A rendering is the string the write! calls produce, byte for byte.      *)
(* Indentation.n is a u32 kept as two 16-bit limbs, since 2^32 - 1 does    *)
(* not fit the model checker's integers.                                   *)
(***************************************************************************)
EXTENDS Integers, Sequences, FiniteSets, TLC

VARIABLES
    phase,            \* "build", "rendered" (Display::fmt ran), "sides" (sides() ran)
    out,              \* the text the last Display::fmt wrote
    rect,             \* a Rectangle value
    rectPre,          \* history: the Rectangle the last builder call consumed
    rectCall,         \* history: the last Rectangle builder call and its argument
    sidesOut,         \* the array Rectangle::sides returned
    seg,              \* a LineSegment value
    segPre,           \* history: the LineSegment the last call consumed
    segCall,          \* history: the last LineSegment call and its arguments
    poly,             \* a Polygon value
    polyGiven,        \* history: the slice handed to polygon()
    polyPre,          \* history: the Polygon the last call consumed
    polyCall,         \* history: the name of the last Polygon call
    pth,              \* a Path value
    calls,            \* history: the PathOp-pushing calls made, in call order
    ind,              \* an Indentation value: ind.n is the u32 as [hi, lo] limbs
    indStart,         \* history: the n handed to indent()
    indPre,           \* history: n before the last push/pop
    indCall,          \* history: "none", "push" or "pop"
    pushes,           \* history: completed push calls
    pops,             \* history: completed pop calls
    belowZero,        \* history: indStart + pushes - pops was negative at some point
    panicked,         \* the thread panicked (arithmetic overflow check failed)
    overflow_checks   \* build profile: TRUE = overflow checks on (debug), FALSE = off (release)

vars == <<phase, out, rect, rectPre, rectCall, sidesOut, seg, segPre, segCall,
          poly, polyGiven, polyPre, polyCall, pth, calls, ind, indStart, indPre, indCall, pushes,
          pops, belowZero, panicked, overflow_checks>>

rectVars == <<rect, rectPre, rectCall, sidesOut>>
segVars == <<seg, segPre, segCall>>
polyVars == <<poly, polyGiven, polyPre, polyCall>>
pathVars == <<pth, calls>>
indVars == <<ind, indStart, indPre, indCall, pushes, pops, belowZero, panicked,
             overflow_checks>>

-----------------------------------------------------------------------------
(* Bounds of the model *)

\* LineSegment coordinates are 5*k - 5 for k in 0..MaxCoord, flip_to candidates
\* those and the next one
MaxCoord == 2
\* polygon() is handed at most MaxPts points
MaxPts == 3
\* a Path receives at most MaxOps PathOp-pushing calls
MaxOps == 3
\* indent(n) starts within MaxStart of either end of the u32 range
MaxStart == 2
\* at most MaxCalls push/pop calls are made on an Indentation
MaxCalls == 4

-----------------------------------------------------------------------------
(* Color, Fill, Stroke, Style *)

\* the text `{}` writes for an integer-valued f32 or a u8
Num_fmt(v) == ToString(v)

rgb(r, g, b) == [r |-> r, g |-> g, b |-> b]
black == rgb(0, 0, 0)
white == rgb(255, 255, 255)
red == rgb(255, 0, 0)

Color_fmt(c) == "rgb(" \o Num_fmt(c.r) \o "," \o Num_fmt(c.g) \o "," \o Num_fmt(c.b) \o ")"

Fill_Color(c) == [tag |-> "Color", color |-> c]
Fill_None == [tag |-> "None"]
Stroke_Color(c, width) == [tag |-> "Color", color |-> c, width |-> width]
Stroke_None == [tag |-> "None"]

Fill_fmt(fill) ==
    IF fill.tag = "Color" THEN "fill:" \o Color_fmt(fill.color) ELSE "fill:none"

\* Stroke written as `stroke:<color>,<width>`
Stroke_fmt_comma(stroke) ==
    IF stroke.tag = "Color"
    THEN "stroke:" \o Color_fmt(stroke.color) \o "," \o Num_fmt(stroke.width)
    ELSE "stroke:none"

\* line 124: `stroke:{};stroke-width:{}`
Stroke_fmt(stroke) ==
    IF stroke.tag = "Color"
    THEN "stroke:" \o Color_fmt(stroke.color) \o ";stroke-width:" \o Num_fmt(stroke.width)
    ELSE "stroke:none"

Style_fmt(style) ==
    Fill_fmt(style.fill) \o ";" \o Stroke_fmt(style.stroke)
        \o ";fill-opacity:" \o Num_fmt(style.opacity)
        \o ";stroke-opacity:" \o Num_fmt(style.stroke_opacity) \o ";"

Style_default ==
    [fill |-> Fill_Color(black), stroke |-> Stroke_None, opacity |-> 1, stroke_opacity |-> 1]

\* the arguments the builder calls are given
Fills == {Fill_None, Fill_Color(black), Fill_Color(red)}
Strokes == {Stroke_None, Stroke_Color(black, 3), Stroke_Color(red, 1)}
Opacities == {0, 1}
Styles == {Style_default,
           [fill |-> Fill_None, stroke |-> Stroke_Color(red, 1), opacity |-> 0,
            stroke_opacity |-> 0]}

-----------------------------------------------------------------------------
(* LineSegment *)

line_segment(x1, y1, x2, y2) ==
    [x1 |-> x1, y1 |-> y1, x2 |-> x2, y2 |-> y2, color |-> black, width |-> 1,
     opacity |-> 1]

LineSegment_color(self, color) == [self EXCEPT !.color = color]
LineSegment_width(self, width) == [self EXCEPT !.width = width]
LineSegment_opacity(self, opacity) == [self EXCEPT !.opacity = opacity]

\* flip_to's axis rule without the `!= 0.0` guard
FlipAxis_nozero(c1, c2, new) ==
    IF new > c1 THEN <<c2, new>>
    ELSE IF new < c1 THEN <<new, c1>>
    ELSE <<c1, c2>>

\* flip_to's axis rule with the other endpoint left where it was
FlipAxis_noswap(c1, c2, new) ==
    IF new # 0
    THEN IF new > c1 THEN <<c1, new>>
         ELSE IF new < c1 THEN <<new, c2>>
         ELSE <<c1, c2>>
    ELSE <<c1, c2>>

\* one axis of flip_to: the pair <<first, second>> after the candidate is applied
FlipAxis(c1, c2, new) ==
    IF new # 0
    THEN IF new > c1 THEN <<c2, new>>
         ELSE IF new < c1 THEN <<new, c1>>
         ELSE <<c1, c2>>
    ELSE <<c1, c2>>

LineSegment_flip_to(self, new_x, new_y) ==
    LET fx == FlipAxis(self.x1, self.x2, new_x)
        fy == FlipAxis(self.y1, self.y2, new_y)
    IN  [self EXCEPT !.x1 = fx[1], !.x2 = fx[2], !.y1 = fy[1], !.y2 = fy[2]]

LineSegment_fmt(self) ==
    "<path d=\"M " \o Num_fmt(self.x1) \o " " \o Num_fmt(self.y1)
        \o " L " \o Num_fmt(self.x2) \o " " \o Num_fmt(self.y2)
        \o "\" style=\"stroke:" \o Color_fmt(self.color)
        \o ";stroke-width:" \o Num_fmt(self.width)
        \o ";stroke-opacity:" \o Num_fmt(self.opacity) \o "\"/>"

-----------------------------------------------------------------------------
(* Rectangle *)

rectangle(x, y, w, h) ==
    [x |-> x, y |-> y, w |-> w, h |-> h, style |-> Style_default, border_radius |-> 0]

Rectangle_fill(self, fill) == [self EXCEPT !.style.fill = fill]

\* a stroke that also puts the fill back to its default
Rectangle_stroke_resets_fill(self, stroke) ==
    [self EXCEPT !.style.stroke = stroke, !.style.fill = Style_default.fill]

Rectangle_stroke(self, stroke) == [self EXCEPT !.style.stroke = stroke]
Rectangle_opacity(self, opacity) == [self EXCEPT !.style.opacity = opacity]
Rectangle_stroke_opacity(self, opacity) == [self EXCEPT !.style.stroke_opacity = opacity]
Rectangle_style(self, style) == [self EXCEPT !.style = style]
Rectangle_border_radius(self, r) == [self EXCEPT !.border_radius = r]

\* sides in the order top, left, bottom, right
Rectangle_sides_swapped(self) ==
    <<line_segment(self.x, self.y, self.x + self.w, self.y),
      line_segment(self.x, self.y, self.x, self.y + self.h),
      line_segment(self.x, self.y + self.h, self.x + self.w, self.y + self.h),
      line_segment(self.x + self.w, self.y, self.x + self.w, self.y + self.h)>>

Rectangle_sides(self) ==
    <<line_segment(self.x, self.y, self.x + self.w, self.y),
      line_segment(self.x, self.y + self.h, self.x + self.w, self.y + self.h),
      line_segment(self.x, self.y, self.x, self.y + self.h),
      line_segment(self.x + self.w, self.y, self.x + self.w, self.y + self.h)>>

\* the format string of line 225 ends `/>""#`: the raw string holds a `"` after `/>`
Rectangle_fmt(self) ==
    "<rect x=\"" \o Num_fmt(self.x) \o "\" y=\"" \o Num_fmt(self.y)
        \o "\" width=\"" \o Num_fmt(self.w) \o "\" height=\"" \o Num_fmt(self.h)
        \o "\" ry=\"" \o Num_fmt(self.border_radius)
        \o "\" style=\"" \o Style_fmt(self.style) \o "\" />\""

-----------------------------------------------------------------------------
(* Polygon *)

polygon(pts) == [points |-> pts, closed |-> TRUE, style |-> Style_default]

Polygon_open(self) == [self EXCEPT !.closed = FALSE]
Polygon_fill(self, fill) == [self EXCEPT !.style.fill = fill]
Polygon_stroke(self, stroke) == [self EXCEPT !.style.stroke = stroke]
Polygon_opacity(self, opacity) == [self EXCEPT !.style.opacity = opacity]
Polygon_stroke_opacity(self, opacity) == [self EXCEPT !.style.stroke_opacity = opacity]
Polygon_style(self, style) == [self EXCEPT !.style = style]

\* the loop of lines 305-307 over points[from..]
RECURSIVE Polygon_lines(_, _)
Polygon_lines(points, from) ==
    IF from > Len(points) THEN ""
    ELSE "L " \o Num_fmt(points[from][1]) \o " " \o Num_fmt(points[from][2]) \o " "
             \o Polygon_lines(points, from + 1)

\* path data that ends in Z whether or not the polygon is closed
Polygon_data_always_Z(self) ==
    IF Len(self.points) > 0
    THEN "M " \o Num_fmt(self.points[1][1]) \o " " \o Num_fmt(self.points[1][2]) \o " "
             \o Polygon_lines(self.points, 2) \o "Z"
    ELSE ""

\* what lines 303-311 write between the two fixed parts
Polygon_data(self) ==
    IF Len(self.points) > 0
    THEN "M " \o Num_fmt(self.points[1][1]) \o " " \o Num_fmt(self.points[1][2]) \o " "
             \o Polygon_lines(self.points, 2)
             \o (IF self.closed THEN "Z" ELSE "")
    ELSE ""

\* line 302: the raw string r#"<path d="# holds no `"` after `d=`
Polygon_head == "<path d="

\* line 312
Polygon_tail(self) == "\" style=\"" \o Style_fmt(self.style) \o "\"/>"

Polygon_fmt(self) == Polygon_head \o Polygon_data(self) \o Polygon_tail(self)

-----------------------------------------------------------------------------
(* Path *)

MoveTo(x, y) == [op |-> "MoveTo", x |-> x, y |-> y]
LineTo(x, y) == [op |-> "LineTo", x |-> x, y |-> y]
QuadraticTo(ctrl_x, ctrl_y, x, y) ==
    [op |-> "QuadraticTo", ctrl_x |-> ctrl_x, ctrl_y |-> ctrl_y, x |-> x, y |-> y]
CubicTo(ctrl1_x, ctrl1_y, ctrl2_x, ctrl2_y, x, y) ==
    [op |-> "CubicTo", ctrl1_x |-> ctrl1_x, ctrl1_y |-> ctrl1_y, ctrl2_x |-> ctrl2_x,
     ctrl2_y |-> ctrl2_y, x |-> x, y |-> y]
Close == [op |-> "Close"]

PathOp_fmt(o) ==
    CASE o.op = "MoveTo" -> "M " \o Num_fmt(o.x) \o " " \o Num_fmt(o.y) \o " "
      [] o.op = "LineTo" -> "L " \o Num_fmt(o.x) \o " " \o Num_fmt(o.y) \o " "
      [] o.op = "QuadraticTo" ->
            "Q " \o Num_fmt(o.ctrl_x) \o " " \o Num_fmt(o.ctrl_y) \o " "
                 \o Num_fmt(o.x) \o " " \o Num_fmt(o.y) \o " "
      [] o.op = "CubicTo" ->
            "C " \o Num_fmt(o.ctrl1_x) \o " " \o Num_fmt(o.ctrl1_y) \o " "
                 \o Num_fmt(o.ctrl2_x) \o " " \o Num_fmt(o.ctrl2_y) \o " "
                 \o Num_fmt(o.x) \o " " \o Num_fmt(o.y) \o " "
      [] o.op = "Close" -> "Z "

\* the loop of lines 482-484 over ops[from..]
RECURSIVE Path_ops_fmt(_, _)
Path_ops_fmt(ops, from) ==
    IF from > Len(ops) THEN ""
    ELSE PathOp_fmt(ops[from]) \o Path_ops_fmt(ops, from + 1)

Path_fmt(self) ==
    "<path d=\"" \o Path_ops_fmt(self.ops, 1)
        \o "\" style=\"" \o Style_fmt(self.style) \o "\" />"

path == [ops |-> <<>>, style |-> Style_default]

\* an op put at the front of ops
Path_push_front(self, o) == [self EXCEPT !.ops = <<o>> \o self.ops]

\* self.ops.push(op)
Path_push(self, o) == [self EXCEPT !.ops = Append(self.ops, o)]

Path_move_to(self, x, y) == Path_push(self, MoveTo(x, y))
Path_line_to(self, x, y) == Path_push(self, LineTo(x, y))
Path_quadratic_bezier_to(self, ctrl_x, ctrl_y, x, y) ==
    Path_push(self, QuadraticTo(ctrl_x, ctrl_y, x, y))
Path_cubic_bezier_to(self, ctrl1_x, ctrl1_y, ctrl2_x, ctrl2_y, x, y) ==
    Path_push(self, CubicTo(ctrl1_x, ctrl1_y, ctrl2_x, ctrl2_y, x, y))
Path_close(self) == Path_push(self, Close)
Path_fill(self, fill) == [self EXCEPT !.style.fill = fill]
Path_stroke(self, stroke) == [self EXCEPT !.style.stroke = stroke]
Path_opacity(self, opacity) == [self EXCEPT !.style.opacity = opacity]
Path_stroke_opacity(self, opacity) == [self EXCEPT !.style.stroke_opacity = opacity]
Path_style(self, style) == [self EXCEPT !.style = style]

-----------------------------------------------------------------------------
(* Indentation: n is a u32, kept as the limbs hi * LimbBase + lo *)

LimbBase == 65536

U32(hi, lo) == [hi |-> hi, lo |-> lo]
U32_ZERO == U32(0, 0)
U32_MAX == U32(LimbBase - 1, LimbBase - 1)

\* n + 1 modulo 2^32
u32_wrapping_inc(n) ==
    IF n.lo + 1 < LimbBase THEN U32(n.hi, n.lo + 1)
    ELSE U32((n.hi + 1) % LimbBase, 0)

\* n - 1 modulo 2^32
u32_wrapping_dec(n) ==
    IF n.lo > 0 THEN U32(n.hi, n.lo - 1)
    ELSE U32((n.hi - 1) % LimbBase, LimbBase - 1)

indent(n) == [n |-> n]

\* `self.n += 1`: with overflow checks the addition panics at u32::MAX and stores
\* nothing, without them it wraps
Indentation_push(self, checks) ==
    IF self.n = U32_MAX /\ checks
    THEN [self |-> self, panic |-> TRUE]
    ELSE [self |-> [self EXCEPT !.n = u32_wrapping_inc(self.n)], panic |-> FALSE]

\* `self.n -= 1`: with overflow checks the subtraction panics at 0 and stores
\* nothing, without them it wraps
Indentation_pop(self, checks) ==
    IF self.n = U32_ZERO /\ checks
    THEN [self |-> self, panic |-> TRUE]
    ELSE [self |-> [self EXCEPT !.n = u32_wrapping_dec(self.n)], panic |-> FALSE]

-----------------------------------------------------------------------------
(* The values of the parts a specification leaves alone *)

RectIdle ==
    /\ rect = rectangle(0, 0, 0, 0)
    /\ rectPre = rectangle(0, 0, 0, 0)
    /\ rectCall = [op |-> "rectangle"]
    /\ sidesOut = <<>>

SegIdle ==
    /\ seg = line_segment(0, 0, 0, 0)
    /\ segPre = line_segment(0, 0, 0, 0)
    /\ segCall = [op |-> "line_segment"]

PolyIdle ==
    /\ polyGiven = <<>>
    /\ poly = polygon(<<>>)
    /\ polyPre = polygon(<<>>)
    /\ polyCall = "polygon"

PathIdle ==
    /\ pth = path
    /\ calls = <<>>

IndIdle ==
    /\ indStart = U32_ZERO
    /\ ind = indent(U32_ZERO)
    /\ indPre = U32_ZERO
    /\ indCall = "none"
    /\ pushes = 0
    /\ pops = 0
    /\ belowZero = FALSE
    /\ panicked = FALSE
    /\ overflow_checks = TRUE

-----------------------------------------------------------------------------
(* Rectangle: rectangle(x, y, w, h), a chain of builder calls, then either *)
(* Display::fmt or sides()                                                 *)

RectXs == {-1, 0, 20}
RectYs == {0, 50}
RectWs == {10, 200}
RectHs == {5, 100}
Radii == {0, 5}

InitRect ==
    /\ phase = "build"
    /\ out = ""
    /\ \E x \in RectXs, y \in RectYs, w \in RectWs, h \in RectHs :
          /\ rect = rectangle(x, y, w, h)
          /\ rectPre = rectangle(x, y, w, h)
    /\ rectCall = [op |-> "rectangle"]
    /\ sidesOut = <<>>
    /\ SegIdle /\ PolyIdle /\ PathIdle /\ IndIdle

RectFill ==
    /\ phase = "build"
    /\ \E fill \in Fills :
          /\ rect' = Rectangle_fill(rect, fill)
          /\ rectCall' = [op |-> "fill", arg |-> fill]
    /\ rectPre' = rect
    /\ UNCHANGED <<phase, out, sidesOut, segVars, polyVars, pathVars, indVars>>

RectStroke ==
    /\ phase = "build"
    /\ \E stroke \in Strokes :
          /\ rect' = Rectangle_stroke(rect, stroke)
          /\ rectCall' = [op |-> "stroke", arg |-> stroke]
    /\ rectPre' = rect
    /\ UNCHANGED <<phase, out, sidesOut, segVars, polyVars, pathVars, indVars>>

RectOpacity ==
    /\ phase = "build"
    /\ \E opacity \in Opacities :
          /\ rect' = Rectangle_opacity(rect, opacity)
          /\ rectCall' = [op |-> "opacity", arg |-> opacity]
    /\ rectPre' = rect
    /\ UNCHANGED <<phase, out, sidesOut, segVars, polyVars, pathVars, indVars>>

RectStrokeOpacity ==
    /\ phase = "build"
    /\ \E opacity \in Opacities :
          /\ rect' = Rectangle_stroke_opacity(rect, opacity)
          /\ rectCall' = [op |-> "stroke_opacity", arg |-> opacity]
    /\ rectPre' = rect
    /\ UNCHANGED <<phase, out, sidesOut, segVars, polyVars, pathVars, indVars>>

RectStyle ==
    /\ phase = "build"
    /\ \E style \in Styles :
          /\ rect' = Rectangle_style(rect, style)
          /\ rectCall' = [op |-> "style", arg |-> style]
    /\ rectPre' = rect
    /\ UNCHANGED <<phase, out, sidesOut, segVars, polyVars, pathVars, indVars>>

RectBorderRadius ==
    /\ phase = "build"
    /\ \E r \in Radii :
          /\ rect' = Rectangle_border_radius(rect, r)
          /\ rectCall' = [op |-> "border_radius", arg |-> r]
    /\ rectPre' = rect
    /\ UNCHANGED <<phase, out, sidesOut, segVars, polyVars, pathVars, indVars>>

RectSides ==
    /\ phase = "build"
    /\ sidesOut' = Rectangle_sides(rect)
    /\ rectPre' = rect
    /\ rectCall' = [op |-> "sides"]
    /\ phase' = "sides"
    /\ UNCHANGED <<out, rect, segVars, polyVars, pathVars, indVars>>

RectRender ==
    /\ phase = "build"
    /\ out' = Rectangle_fmt(rect)
    /\ phase' = "rendered"
    /\ UNCHANGED <<rectVars, segVars, polyVars, pathVars, indVars>>

NextRect ==
    \/ RectFill
    \/ RectStroke
    \/ RectOpacity
    \/ RectStrokeOpacity
    \/ RectStyle
    \/ RectBorderRadius
    \/ RectSides
    \/ RectRender

SpecRect == InitRect /\ [][NextRect]_vars

-----------------------------------------------------------------------------
(* Claims about Rectangle, checked under SpecRect *)

\* rectangle(20, 50, 200, 100).fill(red()).stroke(Stroke::Color(black(), 3.0)).border_radius(5.0)
FooRectangle ==
    Rectangle_border_radius(
        Rectangle_stroke(Rectangle_fill(rectangle(20, 50, 200, 100), Fill_Color(red)),
                         Stroke_Color(black, 3)),
        5)

C7_SidesFixedOrderDefaultStyle ==
    phase = "sides" =>
        LET x == rect.x
            y == rect.y
            w == rect.w
            h == rect.h
            S(a1, b1, a2, b2) ==
                [x1 |-> a1, y1 |-> b1, x2 |-> a2, y2 |-> b2,
                 color |-> [r |-> 0, g |-> 0, b |-> 0], width |-> 1, opacity |-> 1]
        IN  /\ Len(sidesOut) = 4
            /\ sidesOut[1] = S(x, y, x + w, y)
            /\ sidesOut[2] = S(x, y + h, x + w, y + h)
            /\ sidesOut[3] = S(x, y, x, y + h)
            /\ sidesOut[4] = S(x + w, y, x + w, y + h)
            /\ rect = rectPre

\* sides() of the rectangle (0, 0, 10, 5), after its style was changed
C7_Witness ==
    /\ phase = "sides"
    /\ <<rect.x, rect.y, rect.w, rect.h>> = <<0, 0, 10, 5>>
    /\ rect.style.fill = Fill_Color(red)
    /\ rect.style.stroke = Stroke_Color(black, 3)
    /\ rect.border_radius = 5
    /\ <<sidesOut[2].x1, sidesOut[2].y1, sidesOut[2].x2, sidesOut[2].y2>> = <<0, 5, 10, 5>>
    /\ <<sidesOut[4].x1, sidesOut[4].y1, sidesOut[4].x2, sidesOut[4].y2>> = <<10, 0, 10, 5>>

\* C8: fill, stroke, opacity, stroke_opacity and border_radius each change only
\* their own field, and any two of them applied to a rectangle in either order
\* give the same value and the same rendering.
C8_IndependentMutatorsCommute ==
    LET Others(r, own) ==
            <<r.x, r.y, r.w, r.h,
              IF own = "fill" THEN 0 ELSE r.style.fill,
              IF own = "stroke" THEN 0 ELSE r.style.stroke,
              IF own = "opacity" THEN 0 ELSE r.style.opacity,
              IF own = "stroke_opacity" THEN 0 ELSE r.style.stroke_opacity,
              IF own = "border_radius" THEN 0 ELSE r.border_radius>>
        Own(r, own) ==
            CASE own = "fill" -> r.style.fill
              [] own = "stroke" -> r.style.stroke
              [] own = "opacity" -> r.style.opacity
              [] own = "stroke_opacity" -> r.style.stroke_opacity
              [] own = "border_radius" -> r.border_radius
        Commute(F(_, _), A, G(_, _), B) ==
            \A a \in A, b \in B :
                /\ G(F(rect, a), b) = F(G(rect, b), a)
                /\ Rectangle_fmt(G(F(rect, a), b)) = Rectangle_fmt(F(G(rect, b), a))
    IN  /\ rectCall.op \in {"fill", "stroke", "opacity", "stroke_opacity", "border_radius"} =>
              /\ Others(rect, rectCall.op) = Others(rectPre, rectCall.op)
              /\ Own(rect, rectCall.op) = rectCall.arg
        /\ phase = "build" =>
              /\ Commute(Rectangle_fill, Fills, Rectangle_stroke, Strokes)
              /\ Commute(Rectangle_fill, Fills, Rectangle_opacity, Opacities)
              /\ Commute(Rectangle_fill, Fills, Rectangle_stroke_opacity, Opacities)
              /\ Commute(Rectangle_fill, Fills, Rectangle_border_radius, Radii)
              /\ Commute(Rectangle_stroke, Strokes, Rectangle_opacity, Opacities)
              /\ Commute(Rectangle_stroke, Strokes, Rectangle_stroke_opacity, Opacities)
              /\ Commute(Rectangle_stroke, Strokes, Rectangle_border_radius, Radii)
              /\ Commute(Rectangle_opacity, Opacities, Rectangle_stroke_opacity, Opacities)
              /\ Commute(Rectangle_opacity, Opacities, Rectangle_border_radius, Radii)
              /\ Commute(Rectangle_stroke_opacity, Opacities, Rectangle_border_radius, Radii)

\* fill(red()) then stroke(Stroke::Color(black(), 3.0)) were applied, in that order,
\* to a rectangle that had neither
C8_Witness ==
    /\ phase = "build"
    /\ rectCall.op = "stroke"
    /\ rectCall.arg = Stroke_Color(black, 3)
    /\ rectPre.style.fill = Fill_Color(red)
    /\ rectPre.style.stroke = Stroke_None
    /\ rect.style.fill = Fill_Color(red)
    /\ rect.style.stroke = Stroke_Color(black, 3)

-----------------------------------------------------------------------------
(* LineSegment: line_segment(x1, y1, x2, y2), then a chain of calls *)

\* -5, 0, 5, ...: the coordinates line_segment is given
Coords == {5 * k - 5 : k \in 0..MaxCoord}
\* the candidates flip_to is given: zero, values below, between and above the ends
Cands == {5 * k - 5 : k \in 0..(MaxCoord + 1)}
Colors == {black, red}
Widths == {1, 3}

InitSeg ==
    /\ phase = "build"
    /\ out = ""
    /\ \E x1 \in Coords, y1 \in Coords, x2 \in Coords, y2 \in Coords :
          /\ seg = line_segment(x1, y1, x2, y2)
          /\ segPre = line_segment(x1, y1, x2, y2)
    /\ segCall = [op |-> "line_segment"]
    /\ RectIdle /\ PolyIdle /\ PathIdle /\ IndIdle

SegFlipTo ==
    /\ \E new_x \in Cands, new_y \in Cands :
          /\ seg' = LineSegment_flip_to(seg, new_x, new_y)
          /\ segCall' = [op |-> "flip_to", new_x |-> new_x, new_y |-> new_y]
    /\ segPre' = seg
    /\ UNCHANGED <<phase, out, rectVars, polyVars, pathVars, indVars>>

SegColor ==
    /\ \E color \in Colors :
          /\ seg' = LineSegment_color(seg, color)
          /\ segCall' = [op |-> "color"]
    /\ segPre' = seg
    /\ UNCHANGED <<phase, out, rectVars, polyVars, pathVars, indVars>>

SegWidth ==
    /\ \E width \in Widths :
          /\ seg' = LineSegment_width(seg, width)
          /\ segCall' = [op |-> "width"]
    /\ segPre' = seg
    /\ UNCHANGED <<phase, out, rectVars, polyVars, pathVars, indVars>>

SegOpacity ==
    /\ \E opacity \in Opacities :
          /\ seg' = LineSegment_opacity(seg, opacity)
          /\ segCall' = [op |-> "opacity"]
    /\ segPre' = seg
    /\ UNCHANGED <<phase, out, rectVars, polyVars, pathVars, indVars>>

NextSeg ==
    \/ SegFlipTo
    \/ SegColor
    \/ SegWidth
    \/ SegOpacity

SpecSeg == InitSeg /\ [][NextSeg]_vars

-----------------------------------------------------------------------------
(* Claims about LineSegment.flip_to, checked under SpecSeg *)

\* C1: for a nonzero candidate new_x, flip_to leaves x1 = old x2 and x2 = new_x
\* when new_x > old x1, x1 = new_x and x2 = old x1 when new_x < old x1, and the
\* axis as it was when new_x = old x1; the same for new_y with y1 and y2.
C1_FlipToNonzeroCandidate ==
    segCall.op = "flip_to" =>
        /\ segCall.new_x # 0 =>
              /\ segCall.new_x > segPre.x1 =>
                    (seg.x1 = segPre.x2 /\ seg.x2 = segCall.new_x)
              /\ segCall.new_x < segPre.x1 =>
                    (seg.x1 = segCall.new_x /\ seg.x2 = segPre.x1)
              /\ segCall.new_x = segPre.x1 =>
                    (seg.x1 = segPre.x1 /\ seg.x2 = segPre.x2)
        /\ segCall.new_y # 0 =>
              /\ segCall.new_y > segPre.y1 =>
                    (seg.y1 = segPre.y2 /\ seg.y2 = segCall.new_y)
              /\ segCall.new_y < segPre.y1 =>
                    (seg.y1 = segCall.new_y /\ seg.y2 = segPre.y1)
              /\ segCall.new_y = segPre.y1 =>
                    (seg.y1 = segPre.y1 /\ seg.y2 = segPre.y2)

\* the segment x1 = 0, x2 = 5 after flip_to(10, _): x1 = 5, x2 = 10, while its
\* y axis took the other branch (new_y below y1)
C1_Witness ==
    /\ segCall.op = "flip_to"
    /\ segCall.new_x = 10
    /\ segPre.x1 = 0
    /\ segPre.x2 = 5
    /\ seg.x1 = 5
    /\ seg.x2 = 10
    /\ segCall.new_y # 0
    /\ segCall.new_y < segPre.y1
    /\ seg.y1 = segCall.new_y
    /\ seg.y2 = segPre.y1

\* C2: a candidate of exactly zero leaves its axis's two coordinates as they were;
\* the x1/x2 that result are those flip_to gives for the same old x1/x2 and new_x
\* with any other y1, y2 and new_y (and likewise for y); color, width and opacity
\* are as before the call.
C2_FlipToZeroAndIndependentAxes ==
    segCall.op = "flip_to" =>
        /\ segCall.new_x = 0 => (seg.x1 = segPre.x1 /\ seg.x2 = segPre.x2)
        /\ segCall.new_y = 0 => (seg.y1 = segPre.y1 /\ seg.y2 = segPre.y2)
        /\ \A a1 \in Coords, a2 \in Coords, new \in Cands :
              LET alty == LineSegment_flip_to([segPre EXCEPT !.y1 = a1, !.y2 = a2],
                                              segCall.new_x, new)
                  altx == LineSegment_flip_to([segPre EXCEPT !.x1 = a1, !.x2 = a2],
                                              new, segCall.new_y)
              IN  /\ alty.x1 = seg.x1
                  /\ alty.x2 = seg.x2
                  /\ altx.y1 = seg.y1
                  /\ altx.y2 = seg.y2
        /\ seg.color = segPre.color
        /\ seg.width = segPre.width
        /\ seg.opacity = segPre.opacity

\* flip_to(0, 10) on a segment with x1 = -5 (zero is above x1, yet the x axis is
\* left alone) whose color, width and opacity are not the defaults
C2_Witness ==
    /\ segCall.op = "flip_to"
    /\ segCall.new_x = 0
    /\ segCall.new_y = 10
    /\ segPre.x1 = -5
    /\ segPre.x2 = 5
    /\ seg.x1 = -5
    /\ seg.x2 = 5
    /\ seg.y2 = 10
    /\ seg.color = red
    /\ seg.width = 3
    /\ seg.opacity = 0

-----------------------------------------------------------------------------
(* Polygon: polygon(pts), a chain of builder calls, then Display::fmt *)

PolyPts == {<<0, 0>>, <<1, 0>>, <<1, 1>>}
PolySlices == UNION {[1..k -> PolyPts] : k \in 0..MaxPts}

InitPoly ==
    /\ phase = "build"
    /\ out = ""
    /\ \E pts \in PolySlices :
          /\ polyGiven = pts
          /\ poly = polygon(pts)
          /\ polyPre = polygon(pts)
    /\ polyCall = "polygon"
    /\ RectIdle /\ SegIdle /\ PathIdle /\ IndIdle

PolyOpen ==
    /\ phase = "build"
    /\ poly' = Polygon_open(poly)
    /\ polyPre' = poly
    /\ polyCall' = "open"
    /\ UNCHANGED <<phase, out, polyGiven, rectVars, segVars, pathVars, indVars>>

PolyFill ==
    /\ phase = "build"
    /\ \E fill \in Fills : poly' = Polygon_fill(poly, fill)
    /\ polyPre' = poly
    /\ polyCall' = "fill"
    /\ UNCHANGED <<phase, out, polyGiven, rectVars, segVars, pathVars, indVars>>

PolyStroke ==
    /\ phase = "build"
    /\ \E stroke \in Strokes : poly' = Polygon_stroke(poly, stroke)
    /\ polyPre' = poly
    /\ polyCall' = "stroke"
    /\ UNCHANGED <<phase, out, polyGiven, rectVars, segVars, pathVars, indVars>>

PolyOpacity ==
    /\ phase = "build"
    /\ \E opacity \in Opacities : poly' = Polygon_opacity(poly, opacity)
    /\ polyPre' = poly
    /\ polyCall' = "opacity"
    /\ UNCHANGED <<phase, out, polyGiven, rectVars, segVars, pathVars, indVars>>

PolyStrokeOpacity ==
    /\ phase = "build"
    /\ \E opacity \in Opacities : poly' = Polygon_stroke_opacity(poly, opacity)
    /\ polyPre' = poly
    /\ polyCall' = "stroke_opacity"
    /\ UNCHANGED <<phase, out, polyGiven, rectVars, segVars, pathVars, indVars>>

PolyStyle ==
    /\ phase = "build"
    /\ \E style \in Styles : poly' = Polygon_style(poly, style)
    /\ polyPre' = poly
    /\ polyCall' = "style"
    /\ UNCHANGED <<phase, out, polyGiven, rectVars, segVars, pathVars, indVars>>

PolyRender ==
    /\ phase = "build"
    /\ out' = Polygon_fmt(poly)
    /\ phase' = "rendered"
    /\ UNCHANGED <<rectVars, segVars, polyVars, pathVars, indVars>>

NextPoly ==
    \/ PolyOpen
    \/ PolyFill
    \/ PolyStroke
    \/ PolyOpacity
    \/ PolyStrokeOpacity
    \/ PolyStyle
    \/ PolyRender

SpecPoly == InitPoly /\ [][NextPoly]_vars

-----------------------------------------------------------------------------
(* Claims about Polygon, checked under SpecPoly *)

\* C5: a Polygon of zero points renders exactly `<path d="" style="..."/>`, with
\* the polygon's style fragment for the dots: the `d` attribute opens with a
\* double quote and nothing stands between its two quotes.
C5_EmptyPolygonRendersEmptyD ==
    (phase = "rendered" /\ Len(poly.points) = 0) =>
        out = "<path d=\"\" style=\"" \o Style_fmt(poly.style) \o "\"/>"

\* `L x y ` for each of pts[from..], in order
RECURSIVE StatedLines(_, _)
StatedLines(pts, from) ==
    IF from > Len(pts) THEN ""
    ELSE "L " \o ToString(pts[from][1]) \o " " \o ToString(pts[from][2]) \o " "
             \o StatedLines(pts, from + 1)

\* the path data C10 states for the points pts
StatedData(pts, closed) ==
    "M " \o ToString(pts[1][1]) \o " " \o ToString(pts[1][2]) \o " "
        \o StatedLines(pts, 2) \o (IF closed THEN "Z" ELSE "")

\* C10: for a Polygon of at least one point the path data written is `M x0 y0 `,
\* then `L xi yi ` for each further point in the order given to polygon(), then
\* `Z` exactly when closed; polygon() sets closed, open() clears it and changes
\* neither points nor style; [[0,0],[1,0],[1,1]] gives `M 0 0 L 1 0 L 1 1 Z`
\* and, after open(), `M 0 0 L 1 0 L 1 1 `.
C10_PolygonPathData ==
    /\ polyCall = "polygon" => (poly.closed /\ poly.points = polyGiven)
    /\ polyCall = "open" =>
          /\ ~poly.closed
          /\ poly.points = polyPre.points
          /\ poly.style = polyPre.style
    /\ Len(polyGiven) >= 1 =>
          /\ Polygon_data(poly) = StatedData(polyGiven, poly.closed)
          /\ phase = "rendered" =>
                out = Polygon_head \o StatedData(polyGiven, poly.closed) \o Polygon_tail(poly)
    /\ polyGiven = <<<<0, 0>>, <<1, 0>>, <<1, 1>>>> =>
          Polygon_data(poly) =
              IF poly.closed THEN "M 0 0 L 1 0 L 1 1 Z" ELSE "M 0 0 L 1 0 L 1 1 "

\* the triangle [[0,0],[1,0],[1,1]], opened after its style was changed, rendered
C10_Witness ==
    /\ phase = "rendered"
    /\ polyGiven = <<<<0, 0>>, <<1, 0>>, <<1, 1>>>>
    /\ polyCall = "open"
    /\ polyPre.closed
    /\ ~poly.closed
    /\ poly.style # Style_default
    /\ out = Polygon_head \o "M 0 0 L 1 0 L 1 1 " \o Polygon_tail(poly)

-----------------------------------------------------------------------------
(* Path: path(), a chain of builder calls, then Display::fmt *)

PointArgs == {<<0, 0>>, <<1, 1>>, <<0, 1>>}
QuadArgs == {<<2, 3, 0, 1>>}
CubicArgs == {<<2, 3, 4, 5, 0, 1>>}

InitPath ==
    /\ phase = "build"
    /\ out = ""
    /\ pth = path
    /\ calls = <<>>
    /\ RectIdle /\ SegIdle /\ PolyIdle /\ IndIdle

PathMoveTo ==
    /\ phase = "build"
    /\ Len(pth.ops) < MaxOps
    /\ \E a \in PointArgs :
          /\ pth' = Path_move_to(pth, a[1], a[2])
          /\ calls' = Append(calls, [call |-> "move_to", args |-> a])
    /\ UNCHANGED <<phase, out, rectVars, segVars, polyVars, indVars>>

PathLineTo ==
    /\ phase = "build"
    /\ Len(pth.ops) < MaxOps
    /\ \E a \in PointArgs :
          /\ pth' = Path_line_to(pth, a[1], a[2])
          /\ calls' = Append(calls, [call |-> "line_to", args |-> a])
    /\ UNCHANGED <<phase, out, rectVars, segVars, polyVars, indVars>>

PathQuadraticBezierTo ==
    /\ phase = "build"
    /\ Len(pth.ops) < MaxOps
    /\ \E a \in QuadArgs :
          /\ pth' = Path_quadratic_bezier_to(pth, a[1], a[2], a[3], a[4])
          /\ calls' = Append(calls, [call |-> "quadratic_bezier_to", args |-> a])
    /\ UNCHANGED <<phase, out, rectVars, segVars, polyVars, indVars>>

PathCubicBezierTo ==
    /\ phase = "build"
    /\ Len(pth.ops) < MaxOps
    /\ \E a \in CubicArgs :
          /\ pth' = Path_cubic_bezier_to(pth, a[1], a[2], a[3], a[4], a[5], a[6])
          /\ calls' = Append(calls, [call |-> "cubic_bezier_to", args |-> a])
    /\ UNCHANGED <<phase, out, rectVars, segVars, polyVars, indVars>>

PathClose ==
    /\ phase = "build"
    /\ Len(pth.ops) < MaxOps
    /\ pth' = Path_close(pth)
    /\ calls' = Append(calls, [call |-> "close", args |-> <<>>])
    /\ UNCHANGED <<phase, out, rectVars, segVars, polyVars, indVars>>

PathFill ==
    /\ phase = "build"
    /\ \E fill \in Fills : pth' = Path_fill(pth, fill)
    /\ UNCHANGED <<phase, out, calls, rectVars, segVars, polyVars, indVars>>

PathStroke ==
    /\ phase = "build"
    /\ \E stroke \in Strokes : pth' = Path_stroke(pth, stroke)
    /\ UNCHANGED <<phase, out, calls, rectVars, segVars, polyVars, indVars>>

PathOpacity ==
    /\ phase = "build"
    /\ \E opacity \in Opacities : pth' = Path_opacity(pth, opacity)
    /\ UNCHANGED <<phase, out, calls, rectVars, segVars, polyVars, indVars>>

PathStrokeOpacity ==
    /\ phase = "build"
    /\ \E opacity \in Opacities : pth' = Path_stroke_opacity(pth, opacity)
    /\ UNCHANGED <<phase, out, calls, rectVars, segVars, polyVars, indVars>>

PathStyle ==
    /\ phase = "build"
    /\ \E style \in Styles : pth' = Path_style(pth, style)
    /\ UNCHANGED <<phase, out, calls, rectVars, segVars, polyVars, indVars>>

PathRender ==
    /\ phase = "build"
    /\ out' = Path_fmt(pth)
    /\ phase' = "rendered"
    /\ UNCHANGED <<rectVars, segVars, polyVars, pathVars, indVars>>

NextPath ==
    \/ PathMoveTo
    \/ PathLineTo
    \/ PathQuadraticBezierTo
    \/ PathCubicBezierTo
    \/ PathClose
    \/ PathFill
    \/ PathStroke
    \/ PathOpacity
    \/ PathStrokeOpacity
    \/ PathStyle
    \/ PathRender

SpecPath == InitPath /\ [][NextPath]_vars

-----------------------------------------------------------------------------
(* Claims about Path, checked under SpecPath *)

\* the PathOp a builder call stands for
StatedOp(c) ==
    CASE c.call = "move_to" -> [op |-> "MoveTo", x |-> c.args[1], y |-> c.args[2]]
      [] c.call = "line_to" -> [op |-> "LineTo", x |-> c.args[1], y |-> c.args[2]]
      [] c.call = "quadratic_bezier_to" ->
            [op |-> "QuadraticTo", ctrl_x |-> c.args[1], ctrl_y |-> c.args[2],
             x |-> c.args[3], y |-> c.args[4]]
      [] c.call = "cubic_bezier_to" ->
            [op |-> "CubicTo", ctrl1_x |-> c.args[1], ctrl1_y |-> c.args[2],
             ctrl2_x |-> c.args[3], ctrl2_y |-> c.args[4], x |-> c.args[5],
             y |-> c.args[6]]
      [] c.call = "close" -> [op |-> "Close"]

\* the operands of a call, each followed by a space
RECURSIVE StatedOperands(_, _)
StatedOperands(args, from) ==
    IF from > Len(args) THEN ""
    ELSE ToString(args[from]) \o " " \o StatedOperands(args, from + 1)

\* the text of one call: its letter, a space, its operands each with a space after
StatedOpText(c) ==
    (CASE c.call = "move_to" -> "M "
       [] c.call = "line_to" -> "L "
       [] c.call = "quadratic_bezier_to" -> "Q "
       [] c.call = "cubic_bezier_to" -> "C "
       [] c.call = "close" -> "Z ") \o StatedOperands(c.args, 1)

RECURSIVE StatedD(_, _)
StatedD(cs, from) ==
    IF from > Len(cs) THEN ""
    ELSE StatedOpText(cs[from]) \o StatedD(cs, from + 1)

\* C9: ops is the sequence of move_to / line_to / quadratic_bezier_to /
\* cubic_bezier_to / close calls in call order; a step that changes the style
\* leaves ops alone and a step that pushes an op leaves the style alone; the d
\* attribute rendered is the concatenation, in that order, of each op's text
\* with a space after it.
C9_PathOpsInCallOrder ==
    /\ [](/\ Len(pth.ops) = Len(calls)
          /\ \A i \in 1..Len(calls) : pth.ops[i] = StatedOp(calls[i])
          /\ phase = "rendered" =>
                out = "<path d=\"" \o StatedD(calls, 1) \o "\" style=\""
                          \o Style_fmt(pth.style) \o "\" />")
    /\ [][/\ pth'.style # pth.style => (pth'.ops = pth.ops /\ calls' = calls)
          /\ calls' # calls =>
                (pth'.style = pth.style /\ pth'.ops = Append(pth.ops, StatedOp(calls'[Len(calls')])))
         ]_vars

\* path().move_to(0, 0).line_to(1, 1).close(), with a style call made between the
\* op calls, rendered: d is `M 0 0 L 1 1 Z `
C9_Witness ==
    /\ phase = "rendered"
    /\ calls = <<[call |-> "move_to", args |-> <<0, 0>>],
                 [call |-> "line_to", args |-> <<1, 1>>],
                 [call |-> "close", args |-> <<>>]>>
    /\ pth.style.fill = Fill_Color(red)
    /\ out = "<path d=\"M 0 0 L 1 1 Z \" style=\"" \o Style_fmt(pth.style) \o "\" />"

-----------------------------------------------------------------------------
(* Indentation: indent(n), then push and pop calls, under either build profile *)

\* counts near 0, near u32::MAX, and on both sides of the limb boundary
IndStarts ==
    {U32(0, k) : k \in 0..MaxStart}
        \cup {U32(LimbBase - 1, LimbBase - 1 - k) : k \in 0..MaxStart}
        \cup {U32(0, LimbBase - 1), U32(1, 0)}

\* whether start + d, as an integer, is negative
CountBelowZero(start, d) == start.hi = 0 /\ start.lo + d < 0

InitInd ==
    /\ phase = "build"
    /\ out = ""
    /\ \E start \in IndStarts :
          /\ indStart = start
          /\ ind = indent(start)
          /\ indPre = start
    /\ indCall = "none"
    /\ pushes = 0
    /\ pops = 0
    /\ belowZero = FALSE
    /\ panicked = FALSE
    /\ overflow_checks \in BOOLEAN
    /\ RectIdle /\ SegIdle /\ PolyIdle /\ PathIdle

IndPush ==
    /\ ~panicked
    /\ pushes + pops < MaxCalls
    /\ LET r == Indentation_push(ind, overflow_checks)
       IN  /\ ind' = r.self
           /\ panicked' = r.panic
           /\ pushes' = IF r.panic THEN pushes ELSE pushes + 1
    /\ indPre' = ind.n
    /\ indCall' = "push"
    /\ UNCHANGED <<phase, out, indStart, pops, belowZero, overflow_checks,
                   rectVars, segVars, polyVars, pathVars>>

IndPop ==
    /\ ~panicked
    /\ pushes + pops < MaxCalls
    /\ LET r == Indentation_pop(ind, overflow_checks)
       IN  /\ ind' = r.self
           /\ panicked' = r.panic
           /\ pops' = IF r.panic THEN pops ELSE pops + 1
    /\ indPre' = ind.n
    /\ indCall' = "pop"
    /\ belowZero' = (belowZero \/ CountBelowZero(indStart, pushes - pops - 1))
    /\ UNCHANGED <<phase, out, indStart, pushes, overflow_checks,
                   rectVars, segVars, polyVars, pathVars>>

NextInd ==
    \/ IndPush
    \/ IndPop

SpecInd == InitInd /\ [][NextInd]_vars

-----------------------------------------------------------------------------
(* Claims about Indentation, checked under SpecInd *)

\* C3: pop at a count of 0 either leaves n at 0 or panics; it never leaves the
\* counter wrapped around to 2^32 - 1 with no error signalled.
C3_PopAtZeroSaturatesOrPanics ==
    (indCall = "pop" /\ indPre = U32_ZERO) =>
        /\ panicked \/ ind.n = U32_ZERO
        /\ ~(~panicked /\ ind.n = U32_MAX)

\* C4: starting from any u32 count n0, as long as n0 + pushes - pops never went
\* below zero, n is the integer n0 + pushes - pops (so push then pop gives n0).
C4_CountIsStartPlusPushesMinusPops ==
    ~belowZero =>
        LET total == indStart.lo + pushes - pops
        IN  /\ ind.n.lo = total % LimbBase
            /\ ind.n.hi = indStart.hi + (total \div LimbBase)

====
